---- MODULE Spec2Model ----
(***************************************************************************)
(* A model of CoolProp/Plots/Plots.py: PropertyPlot._plotRound (the        *)
(* magnitude-adaptive rounding of isoline values), PropertyPlot.           *)
(* calc_isolines and PropertyPlot.draw_process.                            *)
(*                                                                         *)
(* Numbers.  A Python float is modelled as an exact decimal number         *)
(* [m |-> mantissa, e |-> exponent], standing for m * 10^e, kept in normal *)
(* form (m not divisible by 10, zero is [m |-> 0, e |-> 0]).  log10,       *)
(* numpy.around and the comparisons are computed exactly on that form, so  *)
(* binary representation error of the floats is outside the model.         *)
(***************************************************************************)
EXTENDS Integers, Sequences, FiniteSets, TLC

VARIABLES
    values,     \* _plotRound: the argument `values`
    inVal,      \* _plotRound: the sorted distinct input (line 91)
    output,     \* _plotRound: the array `output`
    digits,     \* _plotRound: the local `digits`
    val,        \* _plotRound: the decimal places `val` of the last attempt
    pc,         \* _plotRound: position in the routine
    attempts,   \* number of loop bodies executed in the current call
    run,        \* 1 for the first call, 2 for the call on the first result
    first,      \* the result of the first call
    isolines,   \* PropertyPlot._isolines: iso_type -> list of lines
    call,       \* calc_isolines: the last call and how it ended
    ncalls,     \* calc_isolines / draw_process: calls made so far
    heap,       \* draw_process: the dict objects (default and callers')
    drawn       \* draw_process: the last call and what it plotted

vars == <<values, inVal, output, digits, val, pc, attempts, run, first,
          isolines, call, ncalls, heap, drawn>>

roundVars == <<values, inVal, output, digits, val, pc, attempts, run, first>>
isoVars   == <<isolines, call>>
drawVars  == <<heap, drawn>>

----------------------------------------------------------------------------
(* Bounds of the model *)

MaxLen == 3         \* longest argument of _plotRound

----------------------------------------------------------------------------
(* Decimal numbers *)

Abs(x) == IF x < 0 THEN -x ELSE x

Sign(x) == IF x < 0 THEN -1 ELSE IF x = 0 THEN 0 ELSE 1

RECURSIVE Pow10(_)
Pow10(n) == IF n <= 0 THEN 1 ELSE 10 * Pow10(n - 1)

\* number of decimal digits of the natural number n
RECURSIVE NumDigits(_)
NumDigits(n) == IF n < 10 THEN 1 ELSE 1 + NumDigits(n \div 10)

\* the normal form of m * 10^e
RECURSIVE Norm(_, _)
Norm(m, e) ==
    IF m = 0 THEN [m |-> 0, e |-> 0]
    ELSE IF m % 10 = 0 THEN Norm(m \div 10, e + 1)
    ELSE [m |-> m, e |-> e]

Zero == Norm(0, 0)

\* d.dd... * 10^e, the digits of m read as d.dd...
Sci(m, e) == Norm(m, e - NumDigits(Abs(m)) + 1)

\* a < b for positive a, b
PosLess(a, b) ==
    LET ma == NumDigits(a.m) + a.e
        mb == NumDigits(b.m) + b.e
        e0 == IF a.e < b.e THEN a.e ELSE b.e
    IN  IF ma # mb THEN ma < mb
        ELSE a.m * Pow10(a.e - e0) < b.m * Pow10(b.e - e0)

\* a < b
LessV(a, b) ==
    LET sa == Sign(a.m)
        sb == Sign(b.m)
    IN  IF sa # sb THEN sa < sb
        ELSE IF sa = 0 THEN FALSE
        ELSE IF sa = 1 THEN PosLess(a, b)
        ELSE PosLess([m |-> -b.m, e |-> b.e], [m |-> -a.m, e |-> a.e])

Range(s) == {s[i] : i \in 1..Len(s)}

\* the elements of the set S in ascending order
RECURSIVE SortSet(_)
SortSet(S) ==
    IF S = {} THEN <<>>
    ELSE LET mn == CHOOSE x \in S : \A y \in S \ {x} : LessV(x, y)
         IN  <<mn>> \o SortSet(S \ {mn})

\* numpy.unique left out: the array is returned as it is
MutUniqueKeep(arr) == arr

\* numpy.unique: the sorted distinct elements of an array
Unique(arr) == SortSet(Range(arr))

----------------------------------------------------------------------------
(* _plotRound, lines 83-108 *)

limit == 10     \* the local `limit`: the largest value of `digits`
lim   == 10     \* an element of the array `lim`: the clamp of `val`

\* Extended integers: numpy.log10(0.0) is -inf
Fin(n) == [inf |-> 0, n |-> n]
NegInf == [inf |-> -1, n |-> 0]
ExtNeg(x) == [inf |-> -x.inf, n |-> -x.n]
ExtAdd(x, k) == IF x.inf # 0 THEN x ELSE Fin(x.n + k)
ExtLess(x, y) == IF x.inf # y.inf THEN x.inf < y.inf ELSE x.inf = 0 /\ x.n < y.n

\* numpy.floor in the place of numpy.around
MutFloorLog10(v) ==
    IF v.m = 0 THEN NegInf
    ELSE Fin(v.e + NumDigits(Abs(v.m)) - 1)

\* numpy.around(numpy.log10(numpy.abs(v))): log10 to the nearest integer.
\* For v = m * 10^e, round(log10 |v|) = e + round(log10 |m|), and
\* round(log10 |m|) = k iff 10^(2k-1) < m^2 < 10^(2k+1), that is iff m^2 has
\* 2k or 2k+1 digits.
AroundLog10(v) ==
    IF v.m = 0 THEN NegInf
    ELSE Fin(v.e + (NumDigits(v.m * v.m) \div 2))

\* the upper clamp of line 102 left out
MutClampLowerOnly(x) == IF ExtLess(Fin(-lim), x) THEN x ELSE Fin(-lim)

\* the two numpy.where of lines 102-103
Clamp(x) ==
    LET a == IF ExtLess(x, Fin(lim)) THEN x ELSE Fin(lim)
    IN  IF ExtLess(Fin(-lim), a) THEN a ELSE Fin(-lim)

\* val[i] of lines 101-103 for the value v at `digits` = d
Decimals(v, d) == Clamp(ExtAdd(ExtNeg(AroundLog10(v)), d + 1))

\* numpy.around(v, decimals=d): to the nearest multiple of 10^-d, ties to
\* the even multiple
Around(v, d) ==
    IF v.e >= -d THEN v
    ELSE LET s  == -d - v.e
             a  == Abs(v.m)
         IN  IF s > NumDigits(a) THEN Zero
             ELSE LET p  == Pow10(s)
                      q0 == a \div p
                      r  == a % p
                      q  == IF 2 * r > p \/ (2 * r = p /\ q0 % 2 = 1)
                            THEN q0 + 1 ELSE q0
                  IN  Norm(Sign(v.m) * q, -d)

\* lines 101-103: the decimal places of every value
ValArray(inV, d) == [i \in 1..Len(inV) |-> Decimals(inV[i], d)]

\* int(val[i]) of line 106 raises on a non-finite val[i]
IntRaises(v) == \E i \in 1..Len(v) : v[i].inf # 0

\* lines 104-106: every value rounded to its decimal place
RoundAll(inV, v) == [i \in 1..Len(inV) |-> Around(inV[i], v[i].n)]

\* line 91
SortedDistinct(vals) == Unique(vals)

\* inVal * 0.0 in the place of inVal[1:] * 0.0
MutInitialOutputFull(inV) == [i \in 1..Len(inV) |-> Zero]

\* line 92: inVal[1:] * 0.0
InitialOutput(inV) == [i \in 1..(Len(inV) - 1) |-> Zero]

\* line 93
InitialDigits == -1

\* the test of the lengths left out
MutLoopCondNoLen(inV, out, d) == d < limit

\* digits <= limit in the place of digits < limit
MutLoopCondLe(inV, out, d) == Len(inV) > Len(out) /\ d <= limit

\* line 99: the loop condition
LoopCond(inV, out, d) == Len(inV) > Len(out) /\ d < limit

\* the whole routine as a function of its argument
RECURSIVE PlotRoundLoop(_, _, _)
PlotRoundLoop(inV, out, d) ==
    IF LoopCond(inV, out, d)
    THEN PlotRoundLoop(inV, Unique(RoundAll(inV, ValArray(inV, d + 1))), d + 1)
    ELSE out

PlotRound(vals) ==
    LET inV == SortedDistinct(vals)
    IN  PlotRoundLoop(inV, InitialOutput(inV), InitialDigits)

\* The arguments tried: values of several magnitudes, of either sign, zero,
\* values below the resolution of the clamp and values that differ only in
\* their third digit.
Mantissas == {-5, 1, 2, 5, 546}
Exponents == {-11, 0}
InputVals == {Sci(m, e) : m \in Mantissas, e \in Exponents}
                \cup {Zero, Sci(1, -4), Sci(1, 2)}
Inputs == UNION {[1..n -> InputVals] : n \in 0..MaxLen}

InitRound ==
    /\ values \in Inputs
    /\ inVal = <<>>
    /\ output = <<>>
    /\ digits = InitialDigits
    /\ val = <<>>
    /\ pc = "start"
    /\ attempts = 0
    /\ run = 1
    /\ first = <<>>

\* lines 91-95
Begin ==
    /\ pc = "start"
    /\ inVal' = SortedDistinct(values)
    /\ output' = InitialOutput(inVal')
    /\ digits' = InitialDigits
    /\ val' = <<>>
    /\ attempts' = 0
    /\ pc' = "loop"
    /\ UNCHANGED <<values, run, first>>

\* lines 99-107: one pass of the loop body
Attempt ==
    /\ pc = "loop"
    /\ LoopCond(inVal, output, digits)
    /\ digits' = digits + 1
    /\ val' = ValArray(inVal, digits')
    /\ attempts' = attempts + 1
    /\ IF IntRaises(val')
       THEN pc' = "raised" /\ output' = [i \in 1..Len(inVal) |-> Zero]
       ELSE pc' = "loop" /\ output' = Unique(RoundAll(inVal, val'))
    /\ UNCHANGED <<values, inVal, run, first>>

\* line 108
Return ==
    /\ pc = "loop"
    /\ ~LoopCond(inVal, output, digits)
    /\ pc' = "done"
    /\ UNCHANGED <<values, inVal, output, digits, val, attempts, run, first>>

\* the routine called on its own result
Rerun ==
    /\ pc = "done"
    /\ run = 1
    /\ first' = output
    /\ values' = output
    /\ run' = 2
    /\ pc' = "start"
    /\ UNCHANGED <<inVal, output, digits, val, attempts>>

----------------------------------------------------------------------------
(* The specification of _plotRound *)

IdleIso  == isolines = <<>> /\ call = <<>> /\ ncalls = 0
IdleDraw == heap = <<>> /\ drawn = <<>>

Init == InitRound /\ IdleIso /\ IdleDraw

Next ==
    \/ Begin   /\ UNCHANGED <<isolines, call, ncalls, heap, drawn>>
    \/ Attempt /\ UNCHANGED <<isolines, call, ncalls, heap, drawn>>
    \/ Return  /\ UNCHANGED <<isolines, call, ncalls, heap, drawn>>
    \/ Rerun   /\ UNCHANGED <<isolines, call, ncalls, heap, drawn>>

Spec == Init /\ [][Next]_vars

----------------------------------------------------------------------------
(* calc_isolines, lines 110-155 *)

MaxNum    == 3      \* largest `num` tried
MaxRange  == 3      \* longest `iso_range` tried
MaxFail   == 2      \* the calc_range calls of which one may raise
MaxCalls  == 2      \* calls of calc_isolines (of draw_process) in a run
GenDigits == 3      \* digits kept by the division of the range generator

NoneNum == -1       \* num=None

IsoTypes == {"iT", "iQ"}

\* the keys of IsoLine.XY_SWITCH the plot supports, in iteration order
AllTypes == <<"iT", "iQ">>

\* self._get_axis_limits(i_type, CoolProp.iT)[0:2]
AxisLimits(t) == <<Sci(1, -9), Sci(2, -9)>>

AddV(a, b) ==
    LET e0 == IF a.e < b.e THEN a.e ELSE b.e
    IN  Norm(a.m * Pow10(a.e - e0) + b.m * Pow10(b.e - e0), e0)

MulInt(a, k) == Norm(a.m * k, a.e)

DivInt(a, k) == Norm((a.m * Pow10(GenDigits)) \div k, a.e - GenDigits)

\* self.generate_ranges(itype, imin, imax, num): num values from imin to
\* imax, evenly spaced, imax included when num > 1
GenerateRanges(imin, imax, num) ==
    LET step == DivInt(AddV(imax, MulInt(imin, -1)), num - 1)
    IN  [i \in 1..num |->
            IF i = 1 THEN imin
            ELSE IF i = num THEN imax
            ELSE AddV(imin, MulInt(step, i - 1))]

\* self.isolines.get(iso_type, [])
GetLines(iso, t) == IF t \in DOMAIN iso THEN iso[t] ELSE <<>>

\* self.isolines[iso_type] = lines
PutLines(iso, t, lines) ==
    [x \in DOMAIN iso \cup {t} |-> IF x = t THEN lines ELSE iso[x]]

\* what the dict holds when the loop is left by an exception: `lines` is
\* the stored list itself when the key exists, so the appends are kept
StoredAfterRaise(iso, t, lines) ==
    IF t \in DOMAIN iso THEN [iso EXCEPT ![t] = lines] ELSE iso

\* IsoLine(...) as appended by line 151, and after lines 152-153
NewLine(t, v)  == [type |-> t, value |-> v, calculated |-> FALSE]
DoneLine(t, v) == [type |-> t, value |-> v, calculated |-> TRUE]

\* lines 150-153 from index i on; `fail` = k > 0 makes the k-th calc_range
\* from here raise, `fail` = 0 none
RECURSIVE LinesLoop(_, _, _, _, _, _)
LinesLoop(lines, t, rng, i, num, fail) ==
    IF i >= num THEN [lines |-> lines, raised |-> "", fail |-> fail]
    ELSE IF i >= Len(rng)
    THEN [lines |-> lines, raised |-> "IndexError", fail |-> fail]
    ELSE IF fail = 1
    THEN [lines |-> Append(lines, NewLine(t, rng[i + 1])),
          raised |-> "CalcError", fail |-> 0]
    ELSE LinesLoop(Append(lines, DoneLine(t, rng[i + 1])), t, rng, i + 1, num,
                   IF fail > 1 THEN fail - 1 ELSE 0)

\* lines 134-139: the values the isolines are calculated for
IsoValues(a) ==
    LET sorted == Unique(a.range)
        ranged == IF Len(sorted) = 2
                  THEN GenerateRanges(sorted[1], sorted[2], a.num)
                  ELSE sorted
    IN  IF a.rounding THEN PlotRound(ranged) ELSE ranged

\* lines 134-155
CalcBody(iso, a, fail) ==
    IF a.num = NoneNum
    THEN [iso |-> iso, raised |-> "TypeError", fail |-> fail]
    ELSE LET r == LinesLoop(GetLines(iso, a.type), a.type, IsoValues(a),
                            0, a.num, fail)
         IN  IF r.raised # ""
             THEN [iso |-> StoredAfterRaise(iso, a.type, r.lines),
                   raised |-> r.raised, fail |-> r.fail]
             ELSE [iso |-> PutLines(iso, a.type, r.lines),
                   raised |-> "", fail |-> r.fail]

\* the whole of calc_isolines; k is the index in AllTypes the loop of lines
\* 127-131 has reached (0 for a call from outside)
RECURSIVE CalcIsolines(_, _, _, _)
CalcIsolines(iso, a, fail, k) ==
    IF k > Len(AllTypes) THEN [iso |-> iso, raised |-> "", fail |-> fail]
    ELSE IF k > 0
    THEN LET r == CalcIsolines(iso,
                      [a EXCEPT !.type = AllTypes[k], !.given = TRUE,
                                !.range = AxisLimits(AllTypes[k])],
                      fail, 0)
         IN  IF r.raised # "" THEN r
             ELSE CalcIsolines(r.iso, a, r.fail, k + 1)
    ELSE IF ~a.given \/ (Len(a.range) = 1 /\ a.num # 1)
    THEN [iso |-> iso, raised |-> "ValueError", fail |-> fail]
    ELSE IF Len(a.range) = 2 /\ a.num = NoneNum
    THEN [iso |-> iso, raised |-> "ValueError", fail |-> fail]
    ELSE IF a.type = "all" THEN CalcIsolines(iso, a, fail, 1)
    ELSE CalcBody(iso, a, fail)

IsoVals == {Sci(1, -11), Sci(2, -11), Sci(1, -9)}

\* the iso_range arguments tried: every list of one or two values, and the
\* longer lists in ascending order (line 134 sorts them anyway)
IsoRanges ==
    {r \in UNION {[1..n -> IsoVals] : n \in 1..MaxRange} :
        Len(r) <= 2 \/ \A i \in 1..(Len(r) - 1) : ~LessV(r[i + 1], r[i])}

\* the arguments tried; given = FALSE stands for iso_range=None
IsoArgs ==
    [type : IsoTypes \cup {"all"}, given : {TRUE}, range : IsoRanges,
     num : {NoneNum} \cup 1..MaxNum, rounding : BOOLEAN]
    \cup [type : IsoTypes \cup {"all"}, given : {FALSE}, range : {<<>>},
          num : {NoneNum} \cup 1..MaxNum, rounding : {FALSE}]

InitIso ==
    /\ isolines = <<>>
    /\ call = <<>>
    /\ ncalls = 0

\* one call of calc_isolines from outside
CallCalcIsolines ==
    /\ ncalls < MaxCalls
    /\ \E a \in IsoArgs, fail \in 0..MaxFail :
          LET r == CalcIsolines(isolines, a, fail, 0)
          IN  /\ isolines' = r.iso
              /\ call' = [args |-> a, before |-> isolines, raised |-> r.raised]
    /\ ncalls' = ncalls + 1

IdleRound ==
    /\ values = <<>> /\ inVal = <<>> /\ output = <<>> /\ digits = InitialDigits
    /\ val = <<>> /\ pc = "idle" /\ attempts = 0 /\ run = 1 /\ first = <<>>

InitIsoSpec == InitIso /\ IdleRound /\ IdleDraw

NextIso == CallCalcIsolines /\ UNCHANGED <<roundVars, heap, drawn>>

SpecIso == InitIsoSpec /\ [][NextIso]_vars

----------------------------------------------------------------------------
(* draw_process, lines 187-234 *)

MaxPoints == 3      \* longest state container tried
MaxDraws  == 2      \* calls of draw_process in a run

\* the dict the `def` of line 187 creates once, as the default of line_opts
DefaultOpts == [color |-> "r", lw |-> "1.5"]

\* a dict of the caller's, as in line 279
CallerOpts == [color |-> "blue", lw |-> "1.5"]

\* lines 231-233: the three item assignments on the dict
WithMarkerOpts(d) ==
    [k \in DOMAIN d \cup {"label", "linestyle", "marker"} |->
        IF k = "label" THEN ""
        ELSE IF k = "linestyle" THEN "none"
        ELSE IF k = "marker" THEN "o"
        ELSE d[k]]

\* lines 207-218 from index i on: a point equal to its predecessor goes to
\* `points`, every other point to the line data
RECURSIVE Walk(_, _, _, _, _)
Walk(sc, i, old, line, points) ==
    IF i > Len(sc) THEN [line |-> line, points |-> points]
    ELSE IF sc[i] = old
    THEN Walk(sc, i + 1, sc[i], line, Append(points, sc[i]))
    ELSE Walk(sc, i + 1, sc[i], Append(line, sc[i]), points)

XData(ps) == [i \in 1..Len(ps) |-> ps[i].x]
YData(ps) == [i \in 1..Len(ps) |-> ps[i].y]

\* the whole of draw_process on the dict object `ref` of the heap h: the two
\* calls of self.axis.plot and the heap it leaves
DrawProcess(h, sc, points, ref) ==
    LET w  == Walk(sc, 1, sc[Len(sc)], <<>>, points)
        h2 == [h EXCEPT ![ref] = WithMarkerOpts(h[ref])]
    IN  [line    |-> [x |-> XData(w.line), y |-> YData(w.line),
                      opts |-> h[ref]],
         markers |-> [x |-> XData(w.points), y |-> YData(w.points),
                      opts |-> h2[ref]],
         heap    |-> h2]

StatePoints == {[x |-> 1, y |-> 1], [x |-> 2, y |-> 3]}

Containers == UNION {[1..n -> StatePoints] : n \in 1..MaxPoints}

InitDraw ==
    /\ heap = [default |-> DefaultOpts, caller |-> CallerOpts]
    /\ drawn = <<>>
    /\ ncalls = 0

\* one call of draw_process: without line_opts (ref = "default") or with the
\* caller's dict; without points (a new container) or with a container
CallDrawProcess ==
    /\ ncalls < MaxDraws
    /\ \E sc \in Containers, ref \in {"default", "caller"},
          points \in {<<>>} \cup {<<p>> : p \in StatePoints} :
          LET r == DrawProcess(heap, sc, points, ref)
          IN  /\ heap' = r.heap
              /\ drawn' = [ref |-> ref, before |-> heap,
                           line |-> r.line, markers |-> r.markers]
    /\ ncalls' = ncalls + 1

InitDrawSpec == InitDraw /\ IdleRound /\ isolines = <<>> /\ call = <<>>

NextDraw == CallDrawProcess /\ UNCHANGED <<roundVars, isolines, call>>

SpecDraw == InitDrawSpec /\ [][NextDraw]_vars

----------------------------------------------------------------------------
(* Claims about _plotRound, checked under Spec *)

Card(S) == Cardinality(S)

\* the values of D rounded at `digits` = d, each to its own decimal place
RoundedSet(D, d) == {Around(v, Decimals(v, d).n) : v \in D}

\* the digits values of the search that keep the values of D apart
Separating(D) == {d \in 0..limit : Card(RoundedSet(D, d)) = Card(D)}

SetMin(S) == CHOOSE x \in S : \A y \in S : x <= y

\* C1: for a non-empty input with distinct values D, the output has at most
\* |D| values; when some digits value of the search rounds D to |D| distinct
\* results, the output has exactly |D| values, the routine stopped at the
\* smallest such digits and the output is that rounding.
C1_SmallestSeparatingDigits ==
    (pc = "done" /\ Len(values) > 0) =>
        LET D == Range(values)
        IN  /\ Len(output) <= Card(D)
            /\ Separating(D) # {} =>
                 /\ Len(output) = Card(D)
                 /\ digits = SetMin(Separating(D))
                 /\ Range(output) = RoundedSet(D, digits)

\* a call that had to retry and then kept every value apart
C1_Witness ==
    /\ pc = "done"
    /\ Card(Range(values)) >= 2
    /\ digits >= 1
    /\ Len(output) = Card(Range(values))
    /\ Len(values) > Card(Range(values))

StrictlyAscending(arr) == \A i \in 1..(Len(arr) - 1) : LessV(arr[i], arr[i + 1])

\* C2: the returned sequence is strictly ascending (sorted, no two equal
\* values) for every input, in any order, with duplicates, and also when the
\* search is exhausted.
C2_OutputStrictlyAscending == pc = "done" => StrictlyAscending(output)

\* an unsorted input whose search was exhausted and left several values
C2_Witness ==
    /\ pc = "done"
    /\ run = 1
    /\ ~StrictlyAscending(values)
    /\ Len(output) < Len(inVal)
    /\ Len(output) >= 2

\* the first attempt (digits = 0) leaves every value of arr unchanged
FixedAtZero(arr) == RoundAll(arr, ValArray(arr, 0)) = arr

\* C3 as stated: the routine run on its own output returns that output.
C3_Idempotent == (run = 2 /\ pc = "done") => output = first

\* C3 as amended: the routine run on its own output returns no more values
\* than that output has, and returns the output itself whenever the first
\* attempt of the second run leaves every value of it unchanged.
C3_FixedWhenUnchangedAtZero ==
    (run = 2 /\ pc = "done") =>
        /\ Len(output) <= Len(first)
        /\ FixedAtZero(first) => output = first

\* a second run on an output of several values that the first attempt keeps
C3_Witness ==
    /\ run = 2
    /\ pc = "done"
    /\ Len(first) >= 2
    /\ FixedAtZero(first)
    /\ output = first

\* C4: the routine never raises on finite input; a zero is given the decimal
\* place 10 at every attempt and is returned as 0; {0.0, 0.0001, 100.0}
\* yields three distinct values.
C4_ZeroHandled ==
    /\ pc # "raised"
    /\ attempts >= 1 =>
         \A i \in 1..Len(inVal) : inVal[i] = Zero => val[i] = Fin(10)
    /\ (pc = "done" /\ Zero \in Range(values)) => Zero \in Range(output)
    /\ (pc = "done" /\ Range(values) = {Zero, Sci(1, -4), Sci(1, 2)}) =>
         /\ Len(output) = 3
         /\ Card(Range(output)) = 3

\* the input {0.0, 0.0001, 100.0} has been rounded
C4_Witness ==
    /\ pc = "done"
    /\ run = 1
    /\ values = <<Zero, Sci(1, 2), Sci(1, -4)>>
    /\ output = <<Zero, Sci(1, -4), Sci(1, 2)>>

ClampInt(x) == IF x > 10 THEN 10 ELSE IF x < -10 THEN -10 ELSE x

\* floor(log10 |v|) of a non-zero v: one less than the number of digits
\* before the decimal point
FloorLog10(v) == v.e + NumDigits(Abs(v.m)) - 1

\* log10 |v| to the nearest integer, from its definition: the k with
\* 10^(k - 1/2) < |v| < 10^(k + 1/2), squared to stay in the integers
NearestLog10(v) ==
    LET sq == v.m * v.m
        j  == CHOOSE k \in 0..4 :
                 /\ (k = 0 \/ Pow10(2 * k - 1) < sq)
                 /\ sq < Pow10(2 * k + 1)
    IN  v.e + j

\* C7 as stated: the decimal place of a non-zero value is
\* -floor(log10 |v|) + digits + 1, clamped to [-10, 10].
C7_FloorDecimalPlace ==
    (attempts >= 1 /\ pc # "start") =>
        \A i \in 1..Len(inVal) :
            inVal[i] # Zero =>
                val[i] = Fin(ClampInt(-FloorLog10(inVal[i]) + digits + 1))

\* C7 as amended: the decimal place of a non-zero value is
\* -round(log10 |v|) + digits + 1, log10 rounded to the nearest integer,
\* clamped to [-10, 10].
C7_NearestDecimalPlace ==
    (attempts >= 1 /\ pc # "start") =>
        \A i \in 1..Len(inVal) :
            inVal[i] # Zero =>
                val[i] = Fin(ClampInt(-NearestLog10(inVal[i]) + digits + 1))

\* an attempt on a value whose log10 rounds up, and on one that is clamped
C7_Witness ==
    /\ attempts >= 1
    /\ pc # "start"
    /\ \E i \in 1..Len(inVal) :
          /\ inVal[i] # Zero
          /\ FloorLog10(inVal[i]) # NearestLog10(inVal[i])
    /\ \E i \in 1..Len(inVal) :
          /\ inVal[i] # Zero
          /\ -NearestLog10(inVal[i]) + digits + 1 > 10

\* C8 as stated: the first attempt uses digits = 0, digits grows by one per
\* retry, and there are at most 10 attempts.
C8_AtMostTenAttempts ==
    (pc # "start" /\ Len(values) > 0) =>
        /\ digits = attempts - 1
        /\ attempts <= 10

\* C8 as amended: the first attempt uses digits = 0, digits grows by one per
\* retry, and there are at most 11 attempts (digits 0 to 10).
C8_AtMostElevenAttempts ==
    (pc # "start" /\ Len(values) > 0) =>
        /\ digits = attempts - 1
        /\ attempts <= 11
        /\ pc = "done" => attempts >= 1

\* a call that used all eleven attempts
C8_Witness == pc = "done" /\ attempts = 11 /\ digits = 10

----------------------------------------------------------------------------
(* Claims about calc_isolines, checked under SpecIso *)

Called == call # <<>>

\* the lines the last call left in isolines[iso_type] beyond those before it
Appended ==
    LET t   == call.args.type
        old == GetLines(call.before, t)
        new == GetLines(isolines, t)
    IN  SubSeq(new, Len(old) + 1, Len(new))

\* the last call was made for one iso_type and no calc_range raised in it
DirectCall ==
    /\ Called
    /\ call.args.type \in IsoTypes
    /\ call.args.given
    /\ call.raised # "CalcError"

\* C5: given a collection of more than two distinct values (and an integer
\* num), the call calculates one isoline for each value of the collection
\* and appends exactly those to isolines[iso_type].
C5_OneIsolinePerValue ==
    (/\ DirectCall
     /\ Card(Range(call.args.range)) > 2
     /\ call.args.num # NoneNum) =>
        /\ call.raised = ""
        /\ Len(Appended) = Card(Range(call.args.range))
        /\ ~call.args.rounding =>
             Appended = [i \in 1..Len(Appended) |->
                           DoneLine(call.args.type, Unique(call.args.range)[i])]

\* C6: given [min, max] with min < max, num >= 1 and rounding=True, the call
\* appends exactly num isolines, one per rounded range value, and does not
\* read past the end of the rounded range.
C6_NumIsolinesWhenRounding ==
    (/\ DirectCall
     /\ Len(call.args.range) = 2
     /\ LessV(call.args.range[1], call.args.range[2])
     /\ call.args.num >= 1
     /\ call.args.rounding) =>
        /\ call.raised # "IndexError"
        /\ Len(Appended) = call.args.num
        /\ Appended = [i \in 1..call.args.num |->
                          DoneLine(call.args.type, IsoValues(call.args)[i])]

\* C9: when a call for an iso_type raises, the isolines mapping and the
\* lists in it are as they were before the call.
C9_UnchangedWhenRaised ==
    (/\ Called
     /\ call.args.type \in IsoTypes
     /\ call.raised # "") => isolines = call.before

----------------------------------------------------------------------------
(* Claims about draw_process, checked under SpecDraw *)

\* C10: draw_process modifies neither the dict it is given nor its default,
\* and every call without line_opts draws the process line with exactly the
\* options {'color': 'r', 'lw': 1.5}.
C10_OptionsUntouched ==
    drawn # <<>> =>
        /\ heap = drawn.before
        /\ drawn.ref = "default" => drawn.line.opts = DefaultOpts

====
